---- MODULE Spec2Model ----
(***************************************************************************)
(* froniator.py: a script started once a minute by cron.  Every run        *)
(* rebuilds its view of the day from the files on disk, samples the        *)
(* inverter during daylight, and finalizes the day once after sunset.      *)
(* The files are the only state shared between runs; the script's module   *)
(* level variables are the state of one run.                               *)
(***************************************************************************)
EXTENDS Integers, Sequences, FiniteSets, TLC

(* ------------------------------ bounds -------------------------------- *)

MaxRuns == 3        \* invocations of the script in one behaviour
MaxDay == 2         \* calendar days covered
MaxTime == 4        \* clock instants of a day: 0 .. MaxTime
MaxExtra == 2       \* archive samples a channel may hold beyond the trim

(* ------------------------- program constants -------------------------- *)

\* sun['sunrise'], sun['sunset'] in the clock's units
sunrise == 1
sunset == 3

\* timestampList[54:], str1watts[54:], str2watts[54:]
Trim == 54

\* seconds between two archive samples ("54 * 5 minutes")
SampleStep == 300

Min(a, b) == IF a < b THEN a ELSE b

Procs == {1, 2}
Times == 0 .. MaxTime

\* The PAC value the realtime endpoint reports at clock instant t: the
\* output rises until midday and falls after it
PacAt(t) == 600 * Min(t, MaxTime - t)

\* number of samples one archive channel may hold
ArchLens == {Trim, Trim + MaxExtra}

(* ----------------------------- helpers -------------------------------- *)

RECURSIVE SumSeq(_)
SumSeq(s) == IF s = <<>> THEN 0 ELSE Head(s) + SumSeq(Tail(s))

RECURSIVE MaxSeq(_)
MaxSeq(s) == IF Len(s) = 1 THEN Head(s)
             ELSE LET m == MaxSeq(Tail(s)) IN IF Head(s) > m THEN Head(s) ELSE m

\* s[n:] of a Python list
Slice(s, n) == IF Len(s) <= n THEN <<>> ELSE SubSeq(s, n + 1, Len(s))

\* zip(a, b): as many pairs as the shorter list has
Zip(a, b) == [i \in 1 .. Min(Len(a), Len(b)) |-> <<a[i], b[i]>>]

\* the items paired in the order the response gave them
SortedItems_AsGiven(d) == d

\* sorted(d.items()) of a dict with integer keys; d is the list of its
\* <<key, value>> items in the order the response gave them
SortedItems(d) == SortSeq(d, LAMBDA a, b : a[1] < b[1])

(* ------------------------- inverter payloads -------------------------- *)

\* One archive channel of n samples: <<seconds since midnight, sample>> items.
\* Currents are in tenths of an ampere, voltages in volts.  The response
\* gives the items in no particular order: here the last two are exchanged.
ItemAt(i, base, mod) == <<SampleStep * (i - 1), base + (i % mod)>>

Channel(n, base, mod) ==
    [i \in 1 .. n |-> IF n >= 2 /\ i >= n - 1 THEN ItemAt(2 * n - 1 - i, base, mod)
                       ELSE ItemAt(i, base, mod)]

\* The archive response whose four channels hold n.c1, n.v1, n.c2, n.v2 samples
Archive(n) ==
    [Current_DC_String_1 |-> Channel(n.c1, 15, 4),
     Voltage_DC_String_1 |-> Channel(n.v1, 31, 3),
     Current_DC_String_2 |-> Channel(n.c2, 27, 5),
     Voltage_DC_String_2 |-> Channel(n.v2, 33, 2)]

\* The archive responses the endpoint gives to a run, each named by its
\* channel sizes; the two channels of a string are of one size here
Archives == {[c1 |-> n, v1 |-> n, c2 |-> m, v2 |-> m] : n \in ArchLens, m \in ArchLens}

NoData == [none |-> TRUE]

\* the archive series at midnight: no samples yet
EmptyArchive == [c1 |-> 0, v1 |-> 0, c2 |-> 0, v2 |-> 0]

\* archive b holds at least the samples of archive a on every channel
Grows(a, b) == a.c1 <= b.c1 /\ a.v1 <= b.v1 /\ a.c2 <= b.c2 /\ a.v2 <= b.v2

(* --------------------------- pure functions --------------------------- *)

\* What requests.get / json.loads do inside call_inverter's try block.
Outcomes == {"ok", "ConnectionError", "ReadTimeout"}

\* call_inverter(inverterUrl).  `data` is assigned only inside the try block,
\* so after either except clause the return statement reads an unbound local
\* and raises UnboundLocalError instead of returning.
call_inverter(inverterUrl, outcome, payload) ==
    LET errorStatus ==
            CASE outcome = "ok" -> "OK"
              [] outcome = "ConnectionError" -> "Cannot connect to inverter"
              [] outcome = "ReadTimeout" ->
                    IF inverterUrl = "powerApiUrl"
                    THEN "Timeout reading from API: powerApiUrl"
                    ELSE "Timeout reading from API: stringApiUrl"
        dataBound == outcome = "ok"
    IN IF dataBound
       THEN [raised |-> "none", data |-> payload, errorStatus |-> errorStatus]
       ELSE [raised |-> "UnboundLocalError", data |-> NoData, errorStatus |-> errorStatus]

\* int(current[1] * voltage[1]) with the current held in tenths of an ampere
Watt(current, voltage) == (current[2] * voltage[2]) \div 10

\* calculate_power(pwrData, stringData); a timestamp is <<today, seconds>>
calculate_power(pwrData, stringData, today) ==
    LET string1cur == SortedItems(stringData.Current_DC_String_1)
        string2cur == SortedItems(stringData.Current_DC_String_2)
        string1volt == SortedItems(stringData.Voltage_DC_String_1)
        string2volt == SortedItems(stringData.Voltage_DC_String_2)
        z1 == Zip(string1cur, string1volt)
        z2 == Zip(string2cur, string2volt)
        timestampList == [i \in 1 .. Len(z1) |-> <<today, z1[i][1][1]>>]
        str1watts == [i \in 1 .. Len(z1) |-> Watt(z1[i][1], z1[i][2])]
        str2watts == [i \in 1 .. Len(z2) |-> Watt(z2[i][1], z2[i][2])]
    IN [watts |-> pwrData.PAC,
        timestampList |-> Slice(timestampList, Trim),
        str1watts |-> Slice(str1watts, Trim),
        str2watts |-> Slice(str2watts, Trim)]

\* the rows written by the `with open(stringCsv, 'w')` block
StringRows(timestampList, str1watts, str2watts) ==
    LET z == Zip(Zip(timestampList, str1watts), str2watts)
    IN [i \in 1 .. Len(z) |-> <<z[i][1][1], z[i][1][2], z[i][2]>>]

NoFile == [exists |-> FALSE, rows |-> <<>>]

\* the string CSV opened in mode 'a' instead of 'w'
WriteStringCsv_Append(file, rows) == [exists |-> TRUE, rows |-> file.rows \o rows]

\* open(stringCsv, 'w') and the writerow loop: the file is truncated, then
\* the rows are written
WriteStringCsv(file, rows) == [exists |-> TRUE, rows |-> rows]

\* write_csv opening the file in mode 'w' instead of 'a'
write_csv_Truncate(file, csvRow) == [exists |-> TRUE, rows |-> <<csvRow>>]

\* write_csv(filename, *args): open in append mode, write one row
write_csv(file, csvRow) == [exists |-> TRUE, rows |-> Append(file.rows, csvRow)]

\* write_history_html writing the new entry after the previous content
write_history_html_AtEnd(isHistoryHtml, file, histHtmlStr) ==
    IF isHistoryHtml /\ ~file.exists
    THEN [raised |-> TRUE, file |-> file]
    ELSE [raised |-> FALSE,
          file |-> [exists |-> TRUE, rows |-> Append(file.rows, histHtmlStr)]]

\* write_history_html(isHistoryHtml, HISTORYHTML, histHtmlStr)
write_history_html(isHistoryHtml, file, histHtmlStr) ==
    IF ~isHistoryHtml
    THEN [raised |-> FALSE,
          file |-> [exists |-> TRUE, rows |-> Append(file.rows, histHtmlStr)]]
    ELSE IF ~file.exists
    THEN [raised |-> TRUE, file |-> file]
    ELSE [raised |-> FALSE,
          file |-> [exists |-> TRUE, rows |-> <<histHtmlStr>> \o file.rows]]

\* round(sum(yAgg) / 60 / 1000, 2), in hundredths of a kWh
kWhOf(yAgg) == (SumSeq(yAgg) + 300) \div 600

\* draw_graph saving the dated image on every call, whatever plotSysVal['eod']
draw_graph_AlwaysDaily(dCsv, sCsv, eod) ==
    IF ~dCsv.exists \/ ~sCsv.exists \/ dCsv.rows = <<>>
    THEN [raised |-> TRUE, kWh |-> 0, maxPwr |-> 0, lPng |-> 0, dPng |-> 0]
    ELSE LET yAgg == [i \in 1 .. Len(dCsv.rows) |-> dCsv.rows[i][2]]
         IN [raised |-> FALSE, kWh |-> kWhOf(yAgg), maxPwr |-> MaxSeq(yAgg),
             lPng |-> 1, dPng |-> 1]

\* draw_graph(plotFnames, plotCfg, plotLabel, plotSysVal): both CSV files are
\* read before anything is drawn; np.genfromtxt raises on a missing file and
\* max() on an empty series.  A readable file is taken to parse.
draw_graph(dCsv, sCsv, eod) ==
    IF ~dCsv.exists \/ ~sCsv.exists \/ dCsv.rows = <<>>
    THEN [raised |-> TRUE, kWh |-> 0, maxPwr |-> 0, lPng |-> 0, dPng |-> 0]
    ELSE LET yAgg == [i \in 1 .. Len(dCsv.rows) |-> dCsv.rows[i][2]]
         IN [raised |-> FALSE, kWh |-> kWhOf(yAgg), maxPwr |-> MaxSeq(yAgg),
             lPng |-> 1, dPng |-> IF eod THEN 1 ELSE 0]

\* log_errors(...): the lines it prints; sys.exit(0) on the first branch
log_errors(isDailyPng, isDailyCsv, isStringCsv, FIRSTRUN, ERRORSTATUS, timeIso) ==
    IF isDailyPng /\ isDailyCsv /\ isStringCsv
    THEN <<>>
    ELSE (IF isDailyPng THEN <<<<timeIso, "Daily PNG already exists">>>>
          ELSE IF ~isDailyCsv /\ ~FIRSTRUN
          THEN <<<<timeIso, "Daily inverter CSV file is missing">>>>
          ELSE IF ~isStringCsv /\ ~FIRSTRUN
          THEN <<<<timeIso, "Daily string CSV file is missing">>>>
          ELSE <<>>)
         \o (IF ERRORSTATUS # "OK" THEN <<<<timeIso, ERRORSTATUS>>>> ELSE <<>>)

\* the daytime condition with the sunset instant counted as daylight
DaytimeCond_UpToSunset(timeNow, FORCEDAY, FORCEEOD) ==
    (timeNow > sunrise /\ timeNow <= sunset /\ ~FORCEEOD) \/ FORCEDAY

\* the daytime condition without the "not FORCEEOD" term
DaytimeCond_IgnoreForceEod(timeNow, FORCEDAY, FORCEEOD) ==
    (timeNow > sunrise /\ timeNow < sunset) \/ FORCEDAY

\* line 481-482
DaytimeCond(timeNow, FORCEDAY, FORCEEOD) ==
    (timeNow > sunrise /\ timeNow < sunset /\ ~FORCEEOD) \/ FORCEDAY

\* the end-of-day condition without the "no dated image yet" guard
EndOfDayCond_NoPngGuard(timeNow, isDailyPng, isDailyCsv, isStringCsv, FORCEDAY, FORCEEOD) ==
    (timeNow > sunset /\ isDailyCsv /\ isStringCsv /\ ~FORCEDAY) \/ FORCEEOD

\* line 518-519
EndOfDayCond(timeNow, isDailyPng, isDailyCsv, isStringCsv, FORCEDAY, FORCEEOD) ==
    (timeNow > sunset /\ ~isDailyPng /\ isDailyCsv /\ isStringCsv /\ ~FORCEDAY)
        \/ FORCEEOD

(* ------------------------------- state -------------------------------- *)

VARIABLES
    day,          \* the calendar day (it names today's files)
    clock,        \* the latest clock reading taken on this day
    runs,         \* invocations started so far
    dailyCsv,     \* <today>.csv: rows <<timeIso, watts>>
    stringCsv,    \* <today>-string.csv: rows <<timestamp, w1, w2>>
    dailyPng,     \* <today>.png: number of times it was saved (0: absent)
    liveImage,    \* currentPwr.png: number of times it was saved
    summaryCsv,   \* dailytotals.csv: rows <<timeIso, kWh, maxPwr>>
    historyHtml,  \* history.html: one line per inserted day
    inverter,     \* sample counts of today's archive series at the inverter's last answer
    proc          \* the module-level variables of each running script

files == <<dailyCsv, stringCsv, dailyPng, liveImage, summaryCsv, historyHtml>>
vars == <<day, clock, runs, dailyCsv, stringCsv, dailyPng, liveImage, summaryCsv,
          historyHtml, inverter, proc>>

NoWrites == [dailyCsv |-> 0, stringCsv |-> 0, dailyPng |-> 0, liveImage |-> 0,
             summaryCsv |-> 0, historyHtml |-> 0]

\* The script before it has run: lines 26-43.  st1, st2, tookDay, tookEod and
\* wrote record what the run has done so far.
Fresh ==
    [pc |-> "idle", today |-> 0, timeNow |-> 0,
     FORCEDAY |-> FALSE, FORCEEOD |-> FALSE, eod |-> FALSE,
     isDailyCsv |-> FALSE, isDailyPng |-> FALSE, isStringCsv |-> FALSE,
     isHistoryHtml |-> FALSE, FIRSTRUN |-> TRUE, ERRORSTATUS |-> "OK",
     pwrData |-> NoData, stringData |-> NoData,
     watts |-> 0, timestampList |-> <<>>, str1watts |-> <<>>, str2watts |-> <<>>,
     kWh |-> 0, maxPwr |-> 0,
     out |-> <<>>,
     st1 |-> "none", st2 |-> "none", tookDay |-> FALSE, tookEod |-> FALSE,
     wrote |-> NoWrites]

Init ==
    /\ day = 1
    /\ clock = 0
    /\ runs = 0
    /\ dailyCsv = NoFile
    /\ stringCsv = NoFile
    /\ dailyPng = 0
    /\ liveImage = 0
    /\ summaryCsv = NoFile
    /\ historyHtml = NoFile
    /\ inverter = EmptyArchive
    /\ proc = [p \in Procs |-> Fresh]

Running(p) == proc[p].pc \notin {"idle", "done", "crashed"}

\* The script ends (how: "done" after log_errors, "crashed" on an uncaught
\* exception).  The payloads and the chart figures die with the process; what
\* stays is its output and the record of what the run read and did.
Exit(r, how) ==
    [r EXCEPT !.pc = how, !.pwrData = NoData, !.stringData = NoData,
              !.watts = 0, !.timestampList = <<>>, !.str1watts = <<>>,
              !.str2watts = <<>>, !.kWh = 0, !.maxPwr = 0]

timeIso(p) == <<proc[p].today, proc[p].timeNow>>

\* FIRSTRUN initialised to False at line 42
FirstRunOf_StartsFalse(isDailyCsv) == FALSE

\* line 476-477
FirstRunOf(isDailyCsv) == ~isDailyCsv

\* the chart drawn on every successful sample, the first of the day included
ShouldDraw_Always(isDailyCsv, FIRSTRUN) == TRUE

\* line 511
ShouldDraw(isDailyCsv, FIRSTRUN) == isDailyCsv /\ ~FIRSTRUN

\* lines 426-430
Banner(FORCEDAY, FORCEEOD) ==
    (IF FORCEEOD THEN <<<<<<>>, "FORCED EOD ON">>>> ELSE <<>>)
        \o (IF FORCEDAY THEN <<<<<<>>, "FORCED DAYTIME ON">>>> ELSE <<>>)

(* ------------------------------ actions ------------------------------- *)

\* Lines 376-477: read the clock, the command line (-d, -e) and the four
\* file-existence facts.  -t only moves every file to TESTPATH.
Startup(p, t, d, e) ==
    /\ ~Running(p)
    /\ runs < MaxRuns
    /\ t >= clock
    /\ clock' = t
    /\ runs' = runs + 1
    /\ proc' = [proc EXCEPT ![p] =
          [Fresh EXCEPT
             !.pc = "daytime", !.today = day, !.timeNow = t,
             !.FORCEDAY = d, !.FORCEEOD = e, !.eod = e,
             !.isDailyCsv = dailyCsv.exists,
             !.isDailyPng = dailyPng > 0,
             !.isStringCsv = stringCsv.exists,
             !.isHistoryHtml = historyHtml.exists,
             !.FIRSTRUN = FirstRunOf(dailyCsv.exists),
             !.out = Banner(d, e)]]
    /\ UNCHANGED <<day, files, inverter>>

\* Line 481-482 false: the daytime block is skipped.
SkipDaytime(p) ==
    /\ proc[p].pc = "daytime"
    /\ ~DaytimeCond(proc[p].timeNow, proc[p].FORCEDAY, proc[p].FORCEEOD)
    /\ proc' = [proc EXCEPT ![p].pc = "endofday"]
    /\ UNCHANGED <<day, clock, runs, files, inverter>>

\* Line 486: pwrData, ERRORSTATUS = call_inverter(powerApiUrl)
CallPower(p, outcome) ==
    /\ proc[p].pc = "daytime"
    /\ DaytimeCond(proc[p].timeNow, proc[p].FORCEDAY, proc[p].FORCEEOD)
    /\ LET r == call_inverter("powerApiUrl", outcome, [PAC |-> PacAt(proc[p].timeNow)])
       IN proc' = [proc EXCEPT ![p] =
             IF r.raised # "none"
             THEN Exit([@ EXCEPT !.tookDay = TRUE, !.st1 = outcome], "crashed")
             ELSE [@ EXCEPT !.pc = "callString", !.tookDay = TRUE, !.st1 = outcome,
                            !.pwrData = r.data, !.ERRORSTATUS = r.errorStatus]]
    /\ UNCHANGED <<day, clock, runs, files, inverter>>

\* Line 487: stringData, ERRORSTATUS = call_inverter(stringApiUrl); an answer
\* carries the archive series the inverter holds at that moment
CallString(p, outcome, archive) ==
    /\ proc[p].pc = "callString"
    /\ LET r == call_inverter("stringApiUrl", outcome, archive)
       IN /\ proc' = [proc EXCEPT ![p] =
                IF r.raised # "none"
                THEN Exit([@ EXCEPT !.st2 = outcome], "crashed")
                ELSE [@ EXCEPT !.pc = "sample", !.st2 = outcome,
                               !.stringData = r.data, !.ERRORSTATUS = r.errorStatus]]
          /\ inverter' = IF outcome = "ok" THEN archive ELSE inverter
    /\ UNCHANGED <<day, clock, runs, files>>

\* Lines 489-506: if ERRORSTATUS is "OK", transform, append the aggregate row
\* and overwrite the string CSV; otherwise leave the daytime block.
Sample(p) ==
    /\ proc[p].pc = "sample"
    /\ IF proc[p].ERRORSTATUS = "OK"
       THEN LET c == calculate_power(proc[p].pwrData, Archive(proc[p].stringData),
                                     proc[p].today)
            IN /\ dailyCsv' = write_csv(dailyCsv, <<timeIso(p), c.watts>>)
               /\ stringCsv' = WriteStringCsv(stringCsv,
                                 StringRows(c.timestampList, c.str1watts, c.str2watts))
               /\ proc' = [proc EXCEPT ![p] =
                     [@ EXCEPT !.pc = "draw",
                               !.watts = c.watts,
                               !.timestampList = c.timestampList,
                               !.str1watts = c.str1watts,
                               !.str2watts = c.str2watts,
                               !.wrote = [@ EXCEPT !.dailyCsv = @ + 1,
                                                   !.stringCsv = @ + 1]]]
       ELSE /\ proc' = [proc EXCEPT ![p].pc = "endofday"]
            /\ UNCHANGED <<dailyCsv, stringCsv>>
    /\ UNCHANGED <<day, clock, runs, dailyPng, liveImage, summaryCsv, historyHtml, inverter>>

\* Line 511 false: first sample of the day, no chart.
SkipDraw(p) ==
    /\ proc[p].pc = "draw"
    /\ ~ShouldDraw(proc[p].isDailyCsv, proc[p].FIRSTRUN)
    /\ proc' = [proc EXCEPT ![p].pc = "endofday"]
    /\ UNCHANGED <<day, clock, runs, files, inverter>>

\* Lines 511-513: draw_graph from the daytime block.
SampleDraw(p) ==
    /\ proc[p].pc = "draw"
    /\ ShouldDraw(proc[p].isDailyCsv, proc[p].FIRSTRUN)
    /\ LET g == draw_graph(dailyCsv, stringCsv, proc[p].eod)
       IN /\ liveImage' = liveImage + g.lPng
          /\ dailyPng' = dailyPng + g.dPng
          /\ proc' = [proc EXCEPT ![p] =
                IF g.raised
                THEN Exit(@, "crashed")
                ELSE [@ EXCEPT !.pc = "endofday",
                               !.wrote = [@ EXCEPT !.liveImage = @ + g.lPng,
                                                   !.dailyPng = @ + g.dPng]]]
    /\ UNCHANGED <<day, clock, runs, dailyCsv, stringCsv, summaryCsv, historyHtml, inverter>>

\* Line 518-519 false: no finalize.
SkipFinalize(p) ==
    /\ proc[p].pc = "endofday"
    /\ ~EndOfDayCond(proc[p].timeNow, proc[p].isDailyPng, proc[p].isDailyCsv,
                     proc[p].isStringCsv, proc[p].FORCEDAY, proc[p].FORCEEOD)
    /\ proc' = [proc EXCEPT ![p].pc = "log"]
    /\ UNCHANGED <<day, clock, runs, files, inverter>>

\* Lines 521-523: plotSysVal['eod'] = True; draw_graph saves both images.
FinalizeDraw(p) ==
    /\ proc[p].pc = "endofday"
    /\ EndOfDayCond(proc[p].timeNow, proc[p].isDailyPng, proc[p].isDailyCsv,
                    proc[p].isStringCsv, proc[p].FORCEDAY, proc[p].FORCEEOD)
    /\ LET g == draw_graph(dailyCsv, stringCsv, TRUE)
       IN /\ liveImage' = liveImage + g.lPng
          /\ dailyPng' = dailyPng + g.dPng
          /\ proc' = [proc EXCEPT ![p] =
                IF g.raised
                THEN Exit([@ EXCEPT !.tookEod = TRUE, !.eod = TRUE], "crashed")
                ELSE [@ EXCEPT !.pc = "summary", !.tookEod = TRUE, !.eod = TRUE,
                               !.kWh = g.kWh, !.maxPwr = g.maxPwr,
                               !.wrote = [@ EXCEPT !.liveImage = @ + g.lPng,
                                                   !.dailyPng = @ + g.dPng]]]
    /\ UNCHANGED <<day, clock, runs, dailyCsv, stringCsv, summaryCsv, historyHtml, inverter>>

\* Line 527: write_csv(SUMMARYCSV, timeIso, kWh, maxPwr)
FinalizeSummary(p) ==
    /\ proc[p].pc = "summary"
    /\ summaryCsv' = write_csv(summaryCsv, <<timeIso(p), proc[p].kWh, proc[p].maxPwr>>)
    /\ proc' = [proc EXCEPT ![p] =
          [@ EXCEPT !.pc = "history", !.wrote = [@ EXCEPT !.summaryCsv = @ + 1]]]
    /\ UNCHANGED <<day, clock, runs, dailyCsv, stringCsv, dailyPng, liveImage, historyHtml,
                   inverter>>

\* Line 531: write_history_html(isHistoryHtml, HISTORYHTML, histHtmlStr)
FinalizeHistory(p) ==
    /\ proc[p].pc = "history"
    /\ LET h == write_history_html(proc[p].isHistoryHtml, historyHtml, proc[p].today)
       IN /\ historyHtml' = h.file
          /\ proc' = [proc EXCEPT ![p] =
                IF h.raised
                THEN Exit(@, "crashed")
                ELSE [@ EXCEPT !.pc = "log",
                               !.wrote = [@ EXCEPT !.historyHtml = @ + 1]]]
    /\ UNCHANGED <<day, clock, runs, dailyCsv, stringCsv, dailyPng, liveImage, summaryCsv,
                   inverter>>

\* Line 535: log_errors(...), then the script ends.
LogErrors(p) ==
    /\ proc[p].pc = "log"
    /\ proc' = [proc EXCEPT ![p] =
          Exit([@ EXCEPT !.out = @ \o log_errors(proc[p].isDailyPng, proc[p].isDailyCsv,
                                                 proc[p].isStringCsv, proc[p].FIRSTRUN,
                                                 proc[p].ERRORSTATUS, timeIso(p))],
               "done")]
    /\ UNCHANGED <<day, clock, runs, files, inverter>>

\* Midnight: `today` changes, so the dated file names denote new, absent
\* files; dailytotals.csv, history.html and currentPwr.png stay.
NewDay ==
    /\ \A p \in Procs : ~Running(p)
    /\ day < MaxDay
    /\ runs < MaxRuns
    /\ day' = day + 1
    /\ clock' = 0
    /\ dailyCsv' = NoFile
    /\ stringCsv' = NoFile
    /\ dailyPng' = 0
    /\ inverter' = EmptyArchive
    /\ UNCHANGED <<runs, liveImage, summaryCsv, historyHtml, proc>>

Step(p) ==
    \/ SkipDaytime(p)
    \/ \E o \in Outcomes : CallPower(p, o)
    \/ \E o \in Outcomes, a \in Archives : CallString(p, o, a)
    \/ Sample(p)
    \/ SkipDraw(p)
    \/ SampleDraw(p)
    \/ SkipFinalize(p)
    \/ FinalizeDraw(p)
    \/ FinalizeSummary(p)
    \/ FinalizeHistory(p)
    \/ LogErrors(p)

\* cron starts one script at a time: a run begins when no other is running
SeqStartup(p) ==
    /\ \A q \in Procs : ~Running(q)
    /\ \E t \in Times, d \in BOOLEAN, e \in BOOLEAN : Startup(p, t, d, e)

\* The invocations of one calendar day.
Next ==
    \/ SeqStartup(1)
    \/ Step(1)

Spec == Init /\ [][Next]_vars

\* The invocations of successive days.
NextDays ==
    \/ SeqStartup(1)
    \/ Step(1)
    \/ NewDay

SpecDays == Init /\ [][NextDays]_vars

\* archive responses whose four channels differ in size
AnyArchives == [c1 : ArchLens, v1 : ArchLens, c2 : ArchLens, v2 : ArchLens]

\* A run on a day on which the inverter's archive series only grows: every
\* answer holds at least the samples of the answer before it.
GrowStep(p) ==
    \/ SkipDaytime(p)
    \/ \E o \in Outcomes : CallPower(p, o)
    \/ \E o \in Outcomes, a \in AnyArchives : Grows(inverter, a) /\ CallString(p, o, a)
    \/ Sample(p)
    \/ SkipDraw(p)
    \/ SampleDraw(p)
    \/ SkipFinalize(p)
    \/ FinalizeDraw(p)
    \/ FinalizeSummary(p)
    \/ FinalizeHistory(p)
    \/ LogErrors(p)

NextGrow ==
    \/ SeqStartup(1)
    \/ GrowStep(1)

SpecGrow == Init /\ [][NextGrow]_vars

\* channel sizes around the trim: no samples, one short of the trim, the trim
\* and up to MaxExtra more
PowerLens == {0, Trim - 1} \cup (Trim .. Trim + MaxExtra)

PowerArchives == [c1 : PowerLens, v1 : PowerLens, c2 : PowerLens, v2 : PowerLens]

\* The first run of a day (no aggregate CSV yet, so no chart from the daytime
\* block), with an archive answer of any channel sizes.
FirstRunStep(p) ==
    \/ SkipDaytime(p)
    \/ \E o \in Outcomes : CallPower(p, o)
    \/ \E o \in Outcomes, a \in PowerArchives : CallString(p, o, a)
    \/ Sample(p)
    \/ SkipDraw(p)
    \/ SkipFinalize(p)
    \/ FinalizeDraw(p)
    \/ FinalizeSummary(p)
    \/ FinalizeHistory(p)
    \/ LogErrors(p)

FirstStartup(p) ==
    /\ runs = 0
    /\ SeqStartup(p)

NextFirstRun ==
    \/ FirstStartup(1)
    \/ FirstRunStep(1)

SpecFirstRun == Init /\ [][NextFirstRun]_vars

\* cron starts the script while the run before it may still be going; no
\* override flag is given
CronStartup(p) == \E t \in Times : Startup(p, t, FALSE, FALSE)

\* The unforced invocations of one day, two of which may overlap.
NextOverlap ==
    \/ \E p \in Procs : CronStartup(p)
    \/ \E p \in Procs : Step(p)

SpecOverlap == Init /\ [][NextOverlap]_vars

\* The invocations cron makes on successive days: one at a time, no override
\* flag.
SeqCronStartup(p) ==
    /\ \A q \in Procs : ~Running(q)
    /\ CronStartup(p)

NextCron ==
    \/ SeqCronStartup(1)
    \/ Step(1)
    \/ NewDay

SpecCron == Init /\ [][NextCron]_vars

\* the archive response with every channel at its longest
FullArchive ==
    [c1 |-> Trim + MaxExtra, v1 |-> Trim + MaxExtra,
     c2 |-> Trim + MaxExtra, v2 |-> Trim + MaxExtra]

\* A run while the inverter answers both calls, the archive call in full.
HealthyStep(p) ==
    \/ SkipDaytime(p)
    \/ CallPower(p, "ok")
    \/ CallString(p, "ok", FullArchive)
    \/ Sample(p)
    \/ SkipDraw(p)
    \/ SampleDraw(p)
    \/ SkipFinalize(p)
    \/ FinalizeDraw(p)
    \/ FinalizeSummary(p)
    \/ FinalizeHistory(p)
    \/ LogErrors(p)

\* The invocations of successive days with the inverter reachable.
NextHealthyDays ==
    \/ SeqStartup(1)
    \/ HealthyStep(1)
    \/ NewDay

SpecHealthyDays == Init /\ [][NextHealthyDays]_vars

\* Between two runs somebody removes today's string CSV (the script tests for
\* the file at line 450 and has a diagnostic for its absence at line 364).
RemoveStringCsv ==
    /\ \A p \in Procs : ~Running(p)
    /\ runs < MaxRuns
    /\ stringCsv.exists
    /\ stringCsv' = NoFile
    /\ UNCHANGED <<day, clock, runs, dailyCsv, dailyPng, liveImage, summaryCsv,
                   historyHtml, inverter, proc>>

\* Between two runs somebody removes today's aggregate CSV (tested for at
\* line 448, diagnostic at line 362).
RemoveDailyCsv ==
    /\ \A p \in Procs : ~Running(p)
    /\ runs < MaxRuns
    /\ dailyCsv.exists
    /\ dailyCsv' = NoFile
    /\ UNCHANGED <<day, clock, runs, stringCsv, dailyPng, liveImage, summaryCsv,
                   historyHtml, inverter, proc>>

\* A run whose archive call, if answered, is answered in full.
FullStep(p) ==
    \/ SkipDaytime(p)
    \/ \E o \in Outcomes : CallPower(p, o)
    \/ \E o \in Outcomes : CallString(p, o, FullArchive)
    \/ Sample(p)
    \/ SkipDraw(p)
    \/ SampleDraw(p)
    \/ SkipFinalize(p)
    \/ FinalizeDraw(p)
    \/ FinalizeSummary(p)
    \/ FinalizeHistory(p)
    \/ LogErrors(p)

\* The invocations of one day during which a CSV file of the day may get lost.
NextLostFile ==
    \/ SeqStartup(1)
    \/ FullStep(1)
    \/ RemoveStringCsv
    \/ RemoveDailyCsv

SpecLostFile == Init /\ [][NextLostFile]_vars

(* ------------------------------ claims -------------------------------- *)

Ended(p) == proc[p].pc \in {"done", "crashed"}

\* process p takes this step
Acts(p) == proc'[p] # proc[p]

Failures == {"ConnectionError", "ReadTimeout"}

\* the number of rows dailytotals.csv holds for today
SummaryRowsToday ==
    Cardinality({i \in 1 .. Len(summaryCsv.rows) : summaryCsv.rows[i][1][1] = day})

\* C1 as stated: whatever the invocations of the day (their clock time, their
\* flags, the files they find), dailytotals.csv never holds a second row for
\* the day.
C1_NeverSecondSummaryRow == SummaryRowsToday <= 1

\* C1, amended: once dailytotals.csv holds today's row, an invocation started
\* without force-end-of-day appends nothing to it.
C1_UnforcedNeverSecondSummaryRow ==
    [][\A p \in Procs :
         (Acts(p) /\ ~proc'[p].FORCEEOD /\ SummaryRowsToday >= 1)
             => summaryCsv' = summaryCsv]_vars

\* a run without force-end-of-day came after the day's finalize, saw the dated
\* image and ended; the summary still holds one row
C1_Witness ==
    \E p \in Procs :
        /\ proc[p].pc = "done"
        /\ ~proc[p].FORCEEOD
        /\ proc[p].timeNow > sunset
        /\ proc[p].isDailyPng
        /\ SummaryRowsToday = 1

\* C2 as stated: today's dated image is saved at most once, whatever the
\* invocations (daytime sample or finalize, forced or not).
C2_ArchivalImageSavedOnce == dailyPng <= 1

\* C2, amended: an invocation started without force-end-of-day saves today's
\* dated image only from the end-of-day block and only when the image does not
\* exist yet.
C2_UnforcedSavesArchivalImageOnce ==
    [][\A p \in Procs :
         (Acts(p) /\ ~proc'[p].FORCEEOD /\ dailyPng' # dailyPng)
             => (dailyPng = 0 /\ dailyPng' = 1 /\ proc[p].pc = "endofday")]_vars

\* after the dated image was saved, a forced daytime sample redrew the live
\* image and left the dated one alone
C2_Witness ==
    \E p \in Procs :
        /\ proc[p].pc = "done"
        /\ ~proc[p].FORCEEOD
        /\ proc[p].isDailyPng
        /\ proc[p].wrote.liveImage = 1
        /\ proc[p].wrote.dailyPng = 0
        /\ dailyPng = 1

\* both override flags off
Unforced(r) == ~r.FORCEDAY /\ ~r.FORCEEOD

TransportError(r) == r.st1 \in Failures \/ r.st2 \in Failures

\* C4: a daytime run in which an acquisition call fails with a transport error
\* transforms nothing, writes no file and still ends normally.
C4_FailedAcquisitionSkipsAndEnds ==
    \A p \in Procs :
        (Ended(p) /\ TransportError(proc[p]))
            => (proc[p].pc = "done" /\ proc[p].wrote = NoWrites)

\* the status call_inverter classifies an outcome as
Classified(url, outcome) ==
    CASE outcome = "ok" -> "OK"
      [] outcome = "ConnectionError" -> "Cannot connect to inverter"
      [] outcome = "ReadTimeout" ->
            IF url = "powerApiUrl" THEN "Timeout reading from API: powerApiUrl"
            ELSE "Timeout reading from API: stringApiUrl"

\* C5: call_inverter returns normally in all three cases: on a connection
\* failure or a read timeout the caller goes on with a None payload and the
\* classified status, on success with the parsed payload and "OK".
C5_CallInverterReturns ==
    \A p \in Procs :
        /\ (proc[p].st1 # "none" /\ proc[p].st2 = "none")
              => /\ proc[p].pc = "callString"
                 /\ proc[p].ERRORSTATUS = Classified("powerApiUrl", proc[p].st1)
                 /\ (proc[p].st1 \in Failures <=> proc[p].pwrData = NoData)
                 /\ (proc[p].st1 = "ok" => proc[p].pwrData = [PAC |-> PacAt(proc[p].timeNow)])
        /\ (proc[p].st2 # "none" /\ proc[p].pc \notin {"done", "crashed"})
              => /\ proc[p].ERRORSTATUS = Classified("stringApiUrl", proc[p].st2)
                 /\ (proc[p].st2 \in Failures <=> proc[p].stringData = NoData)
        /\ (proc[p].st2 \in Failures /\ proc[p].wrote = NoWrites)
              => proc[p].pc # "crashed"

\* how many lines of a run's output carry the message m
Lines(out, m) == Cardinality({i \in 1 .. Len(out) : out[i][2] = m})

\* C6: when a transport error occurred on either acquisition call, the output
\* of the ended run holds that error's diagnostic line exactly once.
C6_TransportErrorLoggedOnce ==
    \A p \in Procs :
        Ended(p) =>
            /\ proc[p].st1 \in Failures
                  => Lines(proc[p].out, Classified("powerApiUrl", proc[p].st1)) = 1
            /\ proc[p].st2 \in Failures
                  => Lines(proc[p].out, Classified("stringApiUrl", proc[p].st2)) = 1

\* DAYTIME-SAMPLE and END-OF-DAY-FINALIZE as the day-cycle rules state them
RuleDaytime(r) ==
    (sunrise < r.timeNow /\ r.timeNow < sunset /\ ~r.FORCEEOD) \/ r.FORCEDAY

RuleFinalize(r) ==
    (r.timeNow > sunset /\ ~r.isDailyPng /\ r.isDailyCsv /\ r.isStringCsv /\ ~r.FORCEDAY)
        \/ r.FORCEEOD

\* C7: for every clock time, flags and file facts, a run has taken the daytime
\* path iff the daytime rule holds and the finalize path iff the finalize rule
\* holds; an unforced run at sunrise or at sunset takes neither.
C7_PathsFollowRules ==
    \A p \in Procs :
        Ended(p) =>
            /\ proc[p].tookDay <=> RuleDaytime(proc[p])
            /\ proc[p].tookEod <=> RuleFinalize(proc[p])
            /\ (Unforced(proc[p]) /\ proc[p].timeNow \in {sunrise, sunset})
                  => (~proc[p].tookDay /\ ~proc[p].tookEod)

\* C8: a run for which neither rule holds makes no acquisition call and leaves
\* every file as it is; only its output grows.
C8_NeitherRuleNoEffect ==
    [][\A p \in Procs :
         (Acts(p) /\ ~RuleDaytime(proc'[p]) /\ ~RuleFinalize(proc'[p]))
             => /\ files' = files
                /\ proc'[p].st1 = "none" /\ proc'[p].st2 = "none"
                /\ proc'[p].wrote = NoWrites
                /\ proc'[p].pc # "crashed"]_vars

\* an unforced run exactly at sunset, with the day's CSV files on disk and no
\* dated image, has ended without doing anything
C8_Witness ==
    \E p \in Procs :
        /\ proc[p].pc = "done"
        /\ Unforced(proc[p])
        /\ proc[p].timeNow = sunset
        /\ proc[p].isDailyCsv /\ proc[p].isStringCsv /\ ~proc[p].isDailyPng
        /\ proc[p].wrote = NoWrites

\* both acquisition calls of the run succeeded
Acquired(r) == r.st1 = "ok" /\ r.st2 = "ok"

C10_NoDuplicateRecord ==
    /\ \A i, j \in 1 .. Len(dailyCsv.rows) :
          i # j => dailyCsv.rows[i][1] # dailyCsv.rows[j][1]
    /\ \A i, j \in 1 .. Len(summaryCsv.rows) :
          i # j => summaryCsv.rows[i][1][1] # summaryCsv.rows[j][1][1]

\* C10, amended: every successful daytime sample appends its row to the
\* aggregate CSV, also when a row of the same minute is there already; a run
\* without force-end-of-day in the minute of a summary row appends no summary
\* row.
C10_SampleAlwaysAppendsSummaryNot ==
    [][\A p \in Procs :
         /\ (Acts(p) /\ proc[p].pc = "sample" /\ proc[p].ERRORSTATUS = "OK")
               => dailyCsv'.rows =
                     Append(dailyCsv.rows, <<timeIso(p), PacAt(proc[p].timeNow)>>)
         /\ (Acts(p) /\ ~proc'[p].FORCEEOD
                /\ \E i \in 1 .. Len(summaryCsv.rows) :
                      summaryCsv.rows[i][1] = <<proc'[p].today, proc'[p].timeNow>>)
               => summaryCsv' = summaryCsv]_vars

\* a second run in the minute of a sample and of the finalize: the aggregate
\* CSV holds two rows of that minute, the summary one row
C10_Witness ==
    \E p \in Procs :
        /\ proc[p].pc = "done"
        /\ ~proc[p].FORCEEOD
        /\ Len(dailyCsv.rows) = 2
        /\ dailyCsv.rows[1][1] = timeIso(p) /\ dailyCsv.rows[2][1] = timeIso(p)
        /\ Len(summaryCsv.rows) = 1
        /\ summaryCsv.rows[1][1] = timeIso(p)

\* the days of the summary rows, latest first: the finalizations in reverse
\* order of insertion
FinalizedDaysNewestFirst ==
    [i \in 1 .. Len(summaryCsv.rows) |->
        summaryCsv.rows[Len(summaryCsv.rows) + 1 - i][1][1]]

\* C11: history.html changes only by a finalize's insertion, which puts the new
\* entry first and leaves the previous content after it (on an absent file the
\* entry is the only line); after N sequential finalizations the file holds
\* the N entries, newest first.
C11_IndexNewestFirst ==
    /\ [][historyHtml' # historyHtml
            => \E p \in Procs :
                  /\ proc[p].pc = "history"
                  /\ proc[p].isHistoryHtml = historyHtml.exists
                  /\ historyHtml'.exists
                  /\ historyHtml'.rows = <<proc[p].today>> \o historyHtml.rows]_vars
    /\ []((\A p \in Procs : proc[p].pc # "history")
            => historyHtml.rows = FinalizedDaysNewestFirst)

\* three finalizations on two days: the second day's entry is first, the two
\* entries of the first day follow
C11_Witness ==
    /\ \A p \in Procs : ~Running(p)
    /\ historyHtml.rows = <<2, 1, 1>>

Max(a, b) == IF a > b THEN a ELSE b

\* the sample of key SampleStep * (i - 1) on each channel, as the inverter
\* recorded it
Cur1(i) == ItemAt(i, 15, 4)
Volt1(i) == ItemAt(i, 31, 3)
Cur2(i) == ItemAt(i, 27, 5)
Volt2(i) == ItemAt(i, 33, 2)

\* the series an archive holds for `today` after the trim: one row per sample
\* position past the first Trim that all four channels have, in key order
TrimmedSeries(n, today) ==
    [i \in 1 .. Max(0, Min(Min(n.c1, n.v1), Min(n.c2, n.v2)) - Trim) |->
        << <<today, SampleStep * (Trim + i - 1)>>,
           Watt(Cur1(Trim + i), Volt1(Trim + i)),
           Watt(Cur2(Trim + i), Volt2(Trim + i)) >>]

\* C12: a successful daytime sample leaves in the string CSV exactly the
\* trimmed series of the archive this run received, whatever the file held
\* before; on a day on which the archive only grows, the file's row count never
\* decreases from one successful sample to the next.
C12_StringCsvReplacedAndGrows ==
    [][\A p \in Procs :
         (Acts(p) /\ proc[p].pc = "sample" /\ proc[p].ERRORSTATUS = "OK")
             => /\ stringCsv'.exists
                /\ stringCsv'.rows = TrimmedSeries(proc[p].stringData, proc[p].today)
                /\ Len(stringCsv'.rows) >= Len(stringCsv.rows)]_vars

\* a later sample of the day has replaced the string CSV it found by the
\* series of the archive it received
C12_Witness ==
    \E p \in Procs :
        /\ proc[p].pc = "done"
        /\ Acquired(proc[p])
        /\ proc[p].isStringCsv
        /\ Len(dailyCsv.rows) = 2
        /\ Len(stringCsv.rows) = MaxExtra
        /\ stringCsv.rows = TrimmedSeries(inverter, day)

\* the file-state inconsistency: at startup today's aggregate CSV exists and
\* the string CSV does not
Inconsistent(r) == r.isDailyCsv /\ ~r.isStringCsv

\* C13: a run that starts with the aggregate CSV present and the string CSV
\* missing ends normally, whatever its clock time and flags, and its output
\* holds the diagnostic of the missing string CSV.
C13_InconsistencyReportedNoAbort ==
    \A p \in Procs :
        (Ended(p) /\ Inconsistent(proc[p]))
            => /\ proc[p].pc = "done"
               /\ Lines(proc[p].out, "Daily string CSV file is missing") = 1

\* C14: within a day the aggregate CSV only grows at its end: a step changes
\* it only by appending the one row of a daytime sample whose two acquisition
\* calls succeeded (creating the file if absent); a run appends one row if it
\* is such a run and none otherwise.
C14_AggregateAppendOnly ==
    /\ [][dailyCsv' # dailyCsv
            => \E p \in Procs :
                  /\ proc[p].pc = "sample"
                  /\ proc[p].tookDay /\ Acquired(proc[p])
                  /\ proc[p].wrote.dailyCsv = 0
                  /\ proc'[p].wrote.dailyCsv = 1
                  /\ dailyCsv'.exists
                  /\ dailyCsv'.rows =
                        Append(dailyCsv.rows, <<timeIso(p), PacAt(proc[p].timeNow)>>)]_vars
    /\ [](\A p \in Procs :
            Ended(p) =>
                proc[p].wrote.dailyCsv =
                    (IF proc[p].tookDay /\ Acquired(proc[p]) THEN 1 ELSE 0))
    /\ [](dailyCsv.exists <=> dailyCsv.rows # <<>>)

\* after two samples of the day, a finalize run has ended without touching the
\* two rows of the aggregate CSV
C14_Witness ==
    \E p \in Procs :
        /\ proc[p].pc = "done"
        /\ proc[p].tookEod /\ ~proc[p].tookDay
        /\ proc[p].wrote.dailyCsv = 0
        /\ Len(dailyCsv.rows) = 2
        /\ dailyCsv.rows[1][1][2] < dailyCsv.rows[2][1][2]

\* calculate_power has returned in run r and its results are still held
Calculated(r) == r.pc \in {"draw", "endofday", "summary", "history", "log"}
                    /\ r.wrote.dailyCsv = 1

\* the watts of one string: the products of the current and voltage samples
\* at the positions past the first Trim that both channels have, in key order
TrimmedWatts(nCur, nVolt, Cur(_), Volt(_)) ==
    [i \in 1 .. Max(0, Min(nCur, nVolt) - Trim) |->
        Watt(Cur(Trim + i), Volt(Trim + i))]

\* C15: for each string calculate_power returns max(0, min(number of current
\* samples, number of voltage samples) - 54) watt values, the products of the
\* key-sorted current and voltage samples at positions 55, 56, ...; 54 or
\* fewer pairs give the empty sequence and the run goes on.
C15_WattsTrimmedPerString ==
    \A p \in Procs :
        Calculated(proc[p]) =>
            /\ proc[p].str1watts =
                  TrimmedWatts(proc[p].stringData.c1, proc[p].stringData.v1, Cur1, Volt1)
            /\ proc[p].str2watts =
                  TrimmedWatts(proc[p].stringData.c2, proc[p].stringData.v2, Cur2, Volt2)
            /\ Len(proc[p].str1watts) =
                  Max(0, Min(proc[p].stringData.c1, proc[p].stringData.v1) - Trim)
            /\ Len(proc[p].str2watts) =
                  Max(0, Min(proc[p].stringData.c2, proc[p].stringData.v2) - Trim)

\* string 1 has more current than voltage samples and yields one value; string
\* 2 has fewer pairs than the trim and yields none
C15_Witness ==
    \E p \in Procs :
        /\ Calculated(proc[p])
        /\ proc[p].stringData.c1 = Trim + 2 /\ proc[p].stringData.v1 = Trim + 1
        /\ proc[p].stringData.c2 = Trim - 1 /\ proc[p].stringData.v2 = Trim
        /\ Len(proc[p].str1watts) = 1
        /\ proc[p].str2watts = <<>>

\* C16: the three sequences calculate_power returns are of one length, also
\* when the four channels hold different numbers of samples.
C16_ThreeSequencesEqualLength ==
    \A p \in Procs :
        Calculated(proc[p]) =>
            /\ Len(proc[p].timestampList) = Len(proc[p].str1watts)
            /\ Len(proc[p].str1watts) = Len(proc[p].str2watts)

\* process p reads its facts in this step
Starts(p) == proc[p].pc # "daytime" /\ proc'[p].pc = "daytime"

\* C17: of two overlapping unforced runs, one that reads its facts once the
\* dated image is written sees it and appends no summary row (nor saves the
\* image again); every summary row comes from a run after sunset that read its
\* facts while the image was absent.
C17_NoSecondRowOnceImageSeen ==
    /\ [][\A p \in Procs : Starts(p) => proc'[p].isDailyPng = (dailyPng > 0)]_vars
    /\ [](\A p \in Procs :
            proc[p].isDailyPng
                => (proc[p].wrote.summaryCsv = 0 /\ proc[p].wrote.dailyPng = 0))
    /\ [][\A p \in Procs :
            (Acts(p) /\ summaryCsv' # summaryCsv)
                => (~proc[p].isDailyPng /\ proc[p].timeNow > sunset)]_vars

\* both runs started after sunset with both CSV files and no dated image, both
\* finalized: the summary CSV holds two rows for the day
C17_Witness ==
    /\ \A p \in Procs :
          /\ proc[p].pc = "done"
          /\ proc[p].timeNow > sunset
          /\ proc[p].isDailyCsv /\ proc[p].isStringCsv /\ ~proc[p].isDailyPng
          /\ proc[p].wrote.summaryCsv = 1
    /\ SummaryRowsToday = 2
    /\ Len(summaryCsv.rows) = 2

\* the number of lines history.html holds for today
HistoryEntriesToday ==
    Cardinality({i \in 1 .. Len(historyHtml.rows) : historyHtml.rows[i] = day})

\* C18: with both flags off in every run, whenever no run is under way today's
\* dated image exists iff the summary CSV holds exactly one row for today iff
\* the index holds exactly one entry for today, and none of the two ever holds
\* more; a finalize run saves the image, then appends the summary row, then
\* inserts the index entry.
C18_FinalizeArtifactsAgree ==
    /\ []((\A p \in Procs : ~Running(p))
            => /\ (dailyPng > 0) <=> (SummaryRowsToday = 1)
               /\ (SummaryRowsToday = 1) <=> (HistoryEntriesToday = 1)
               /\ dailyPng <= 1 /\ SummaryRowsToday <= 1 /\ HistoryEntriesToday <= 1)
    /\ [][\A p \in Procs :
            /\ (Acts(p) /\ dailyPng' # dailyPng)
                  => (proc[p].wrote.summaryCsv = 0 /\ proc[p].wrote.historyHtml = 0)
            /\ (Acts(p) /\ summaryCsv' # summaryCsv)
                  => (proc[p].wrote.dailyPng = 1 /\ proc[p].wrote.historyHtml = 0)
            /\ (Acts(p) /\ historyHtml' # historyHtml)
                  => (proc[p].wrote.dailyPng = 1 /\ proc[p].wrote.summaryCsv = 1)]_vars

\* an unforced run has finalized the day: the image, one summary row and one
\* index entry for today are there
C18_Witness ==
    \E p \in Procs :
        /\ proc[p].pc = "done"
        /\ proc[p].tookEod
        /\ proc[p].today = day
        /\ dailyPng = 1
        /\ SummaryRowsToday = 1
        /\ HistoryEntriesToday = 1

\* C19: a run started with at most one override flag never executes both the
\* daytime block and the end-of-day block, and the two conditions are never
\* both true for it; a run executes both only if it was started with
\* force-daytime and force-end-of-day together.
C19_PathsExclusiveUnlessBothForced ==
    \A p \in Procs :
        /\ (proc[p].tookDay /\ proc[p].tookEod)
              => (proc[p].FORCEDAY /\ proc[p].FORCEEOD)
        /\ (proc[p].pc # "idle" /\ ~(proc[p].FORCEDAY /\ proc[p].FORCEEOD))
              => ~(/\ DaytimeCond(proc[p].timeNow, proc[p].FORCEDAY, proc[p].FORCEEOD)
                   /\ EndOfDayCond(proc[p].timeNow, proc[p].isDailyPng,
                                   proc[p].isDailyCsv, proc[p].isStringCsv,
                                   proc[p].FORCEDAY, proc[p].FORCEEOD))

\* a run with both flags has sampled and finalized
C19_Witness ==
    \E p \in Procs :
        /\ proc[p].pc = "done"
        /\ proc[p].FORCEDAY /\ proc[p].FORCEEOD
        /\ proc[p].tookDay /\ proc[p].tookEod
        /\ proc[p].wrote.dailyCsv = 1
        /\ proc[p].wrote.summaryCsv = 1

\* C20: FIRSTRUN is true exactly when today's aggregate CSV was absent at
\* startup, so no run prints "Daily inverter CSV file is missing", and a run
\* prints "Daily string CSV file is missing" only if at startup the aggregate
\* CSV existed, the string CSV did not and the dated image did not.
C20_FirstRunDiagnostics ==
    \A p \in Procs :
        /\ proc[p].FIRSTRUN <=> ~proc[p].isDailyCsv
        /\ Lines(proc[p].out, "Daily inverter CSV file is missing") = 0
        /\ Lines(proc[p].out, "Daily string CSV file is missing") > 0
              => (proc[p].isDailyCsv /\ ~proc[p].isStringCsv /\ ~proc[p].isDailyPng)

\* a run that found the aggregate CSV but not the string CSV has printed the
\* string diagnostic and nothing else
C20_Witness ==
    \E p \in Procs :
        /\ proc[p].pc = "done"
        /\ proc[p].isDailyCsv /\ ~proc[p].isStringCsv /\ ~proc[p].isDailyPng
        /\ Unforced(proc[p])
        /\ proc[p].out = <<<<timeIso(p), "Daily string CSV file is missing">>>>

====
